---------------------------- MODULE Spec2Model ----------------------------
(***************************************************************************)
(* A model of gpx_hr_merger.py: the merge of a GPS track (GPS.gpx) and a   *)
(* heart-rate track (HR.gpx) into one TCX document whose distances are     *)
(* rescaled to a target total.                                             *)
(*                                                                         *)
(* Representation of the program's values:                                 *)
(*  - Optional[x] (None, a missing XML element, a raised ValueError) is a  *)
(*    sequence of length 0 or 1: None == <<>>, Some(x) == <<x>>.           *)
(*  - an aware datetime is a record [ms, utcoffset]: the instant, in       *)
(*    milliseconds since the start of the activity (UTC), and the UTC      *)
(*    offset of its tzinfo, in milliseconds.  A timestamp text of a        *)
(*    document is represented by the datetime parse_time returns for it    *)
(*    (texts without an offset, which parse to naive datetimes, and        *)
(*    malformed texts are outside the inputs), and                         *)
(*    timedelta.total_seconds() by a difference in milliseconds.           *)
(*  - a coordinate is an integer number of thousandths of a degree.        *)
(*  - a float distance is an exact rational, a record [num, den] kept in   *)
(*    lowest terms; raw (haversine) distances are whole metres.  Floating  *)
(*    point rounding is not modelled.                                      *)
(*  - a str is a sequence of one-character strings.                        *)
(***************************************************************************)
EXTENDS Integers, Sequences, FiniteSets, TLC

VARIABLES
    argv,           \* sys.argv
    files,          \* the working directory: GPS.gpx and HR.gpx
    pc,             \* the position of the run in main
    stdout,         \* the ERROR and Success lines printed so far
    io_log,         \* the file-system calls made so far, in order
    target_km,      \* main's target_km, None until the argument is parsed
    hr_data,        \* main's hr_data, the loaded heart-rate samples
    track_points,   \* main's track_points
    ratio,          \* main's ratio, None until computed
    out_file,       \* output_fixed.tcx: None (not written) or Some(document)
    q_time,         \* the target_time of a get_closest_hr query
    q_result        \* the answer to that query

vars == <<argv, files, pc, stdout, io_log, target_km, hr_data,
          track_points, ratio, out_file, q_time, q_result>>

-----------------------------------------------------------------------------
(* Bounds of the model *)

\* the most trkpt elements in GPS.gpx
MaxTrkpts == 3

\* the most trkpt elements in HR.gpx when load_hr_data is checked alone
MaxHrTrkpts == 3

\* the most samples in hr_data when get_closest_hr is checked alone
MaxSamples == 3

\* the recording interval of the GPS fixes: the i-th trkpt of GPS.gpx, when
\* it carries a time, carries (i - 1) * GpsIntervalMs
GpsIntervalMs == 5000

-----------------------------------------------------------------------------
(* Optional values and Python truthiness *)

None == <<>>

Some(x) == <<x>>

\* `if hr:` on an Optional[int]: None and 0 are falsy
Truthy(o) == o # None /\ o[1] # 0

Abs(x) == IF x < 0 THEN -x ELSE x

Last(s) == s[Len(s)]

-----------------------------------------------------------------------------
(* Exact rationals for float arithmetic *)

RECURSIVE GCD(_, _)
GCD(a, b) == IF b = 0 THEN a ELSE GCD(b, a % b)

Frac(n, d) ==
    LET g == GCD(Abs(n), Abs(d))
    IN  IF g = 0 THEN [num |-> n, den |-> d]
        ELSE [num |-> n \div g, den |-> d \div g]

FracOfInt(n) == [num |-> n, den |-> 1]

FracMul(a, b) == Frac(a.num * b.num, a.den * b.den)

\* a / b for a rational a and a whole number b > 0
FracDivInt(a, b) == Frac(a.num, a.den * b)

FracEq(a, b) == a.num * b.den = b.num * a.den

\* f"{x:.2f}": x rounded to two decimals (half to even), as hundredths
Format2f(x) ==
    LET n == x.num * 100
        q == n \div x.den
        r == n % x.den
    IN  IF 2 * r > x.den \/ (2 * r = x.den /\ q % 2 = 1) THEN q + 1 ELSE q

-----------------------------------------------------------------------------
(* sys.argv[1] -> float *)

Digits == <<"0", "1", "2", "3", "4", "5", "6", "7", "8", "9">>

IsDigit(c) == \E d \in 1..10 : Digits[d] = c

DigitVal(c) == (CHOOSE d \in 1..10 : Digits[d] = c) - 1

\* str.replace(",", ".")
replace_comma(s) == [i \in 1..Len(s) |-> IF s[i] = "," THEN "." ELSE s[i]]

DigitsOnly(s) == SelectSeq(s, IsDigit)

RECURSIVE DecimalValue(_)
DecimalValue(ds) ==
    IF ds = <<>> THEN 0
    ELSE 10 * DecimalValue(SubSeq(ds, 1, Len(ds) - 1)) + DigitVal(Last(ds))

RECURSIVE Pow10(_)
Pow10(n) == IF n = 0 THEN 1 ELSE 10 * Pow10(n - 1)

\* float(s) for texts made of decimal digits and "." (signs, exponents,
\* blanks, "inf" and "nan" are outside the inputs of the model): None is
\* the ValueError
float(s) ==
    LET dots == {i \in 1..Len(s) : s[i] = "."}
        wellFormed == /\ \A i \in 1..Len(s) : IsDigit(s[i]) \/ s[i] = "."
                      /\ Cardinality(dots) <= 1
                      /\ DigitsOnly(s) # <<>>
        decimals == IF dots = {} THEN 0
                    ELSE Len(s) - (CHOOSE i \in dots : TRUE)
    IN  IF wellFormed
        THEN Some(Frac(DecimalValue(DigitsOnly(s)), Pow10(decimals)))
        ELSE None

-----------------------------------------------------------------------------
(* Time formatting *)

DateTime(ms, utcoffset) == [ms |-> ms, utcoffset |-> utcoffset]

\* the datetime of a text that ends in "Z" or "+00:00"
Utc(ms) == DateTime(ms, 0)

\* (a - b).total_seconds() of two aware datetimes, in milliseconds: the
\* difference of the instants, whatever the offsets
total_seconds(a, b) == a.ms - b.ms

\* strftime("%Y-%m-%dT%H:%M:%S.000Z"): the datetime's own wall clock, cut to
\* whole seconds, followed by a literal Z (no conversion to UTC).  The text
\* is represented by the instant it denotes when read as UTC
format_time_tcx(dt) == ((dt.ms + dt.utcoffset) \div 1000) * 1000

-----------------------------------------------------------------------------
(* Great-circle distance *)

\* haversine() rounded to the nearest metre, tabulated from the source for
\* coordinates 0, 0.001 and 0.002 degrees (arguments in thousandths of a
\* degree); on this grid the value depends on |dlat| and |dlon| only
haversine(lon1, lat1, lon2, lat2) ==
    LET dlon == Abs(lon2 - lon1)
        dlat == Abs(lat2 - lat1)
    IN  CASE dlat = 0 /\ dlon = 0 -> 0
          [] dlat = 0 /\ dlon = 1 -> 111
          [] dlat = 1 /\ dlon = 0 -> 111
          [] dlat = 1 /\ dlon = 1 -> 157
          [] dlat = 0 /\ dlon = 2 -> 222
          [] dlat = 2 /\ dlon = 0 -> 222
          [] dlat = 1 /\ dlon = 2 -> 249
          [] dlat = 2 /\ dlon = 1 -> 249
          [] dlat = 2 /\ dlon = 2 -> 315

-----------------------------------------------------------------------------
(* Heart-Rate Index *)

\* Max tolerance in seconds (min_diff = 5.0), in milliseconds
MaxToleranceMs == 5000

\* "if match is very close, stop searching" (diff < 0.5), in milliseconds
CloseEnoughMs == 500

HasTime(trkpt) == trkpt.time # None

HrKept(trkpt) == HasTime(trkpt) /\ Truthy(trkpt.hr)

\* load_hr_data with `if hr is not None` in place of `if hr`
HrKeptWithZero(trkpt) == HasTime(trkpt) /\ trkpt.hr # None

load_hr_data_keep_zero(file) ==
    IF ~file.exists THEN <<>>
    ELSE LET kept == SelectSeq(file.trkpts, HrKeptWithZero)
         IN  [i \in 1..Len(kept) |-> <<kept[i].time[1], kept[i].hr[1]>>]

\* load_hr_data: [] for a missing file; otherwise the (time, hr) pairs of the
\* trkpt elements that have a time and a truthy hr, in document order
load_hr_data(file) ==
    IF ~file.exists THEN <<>>
    ELSE LET kept == SelectSeq(file.trkpts, HrKept)
         IN  [i \in 1..Len(kept) |-> <<kept[i].time[1], kept[i].hr[1]>>]

RECURSIVE ScanHr(_, _, _, _, _)
ScanHr(target_time, samples, i, min_diff, best_hr) ==
    IF i > Len(samples) THEN best_hr
    ELSE LET diff == Abs(total_seconds(target_time, samples[i][1]))
             closer == diff < min_diff
             min_diff2 == IF closer THEN diff ELSE min_diff
             best_hr2 == IF closer THEN Some(samples[i][2]) ELSE best_hr
         IN  IF diff < CloseEnoughMs THEN best_hr2
             ELSE ScanHr(target_time, samples, i + 1, min_diff2, best_hr2)

\* get_closest_hr without the early exit: a true nearest-neighbour scan
RECURSIVE ScanHrNoBreak(_, _, _, _, _)
ScanHrNoBreak(target_time, samples, i, min_diff, best_hr) ==
    IF i > Len(samples) THEN best_hr
    ELSE LET diff == Abs(total_seconds(target_time, samples[i][1]))
             closer == diff < min_diff
         IN  ScanHrNoBreak(target_time, samples, i + 1,
                           IF closer THEN diff ELSE min_diff,
                           IF closer THEN Some(samples[i][2]) ELSE best_hr)

get_closest_hr_no_break(target_time, samples) ==
    IF samples = <<>> THEN None
    ELSE ScanHrNoBreak(target_time, samples, 1, MaxToleranceMs, None)

\* get_closest_hr with `diff <= min_diff` in place of `diff < min_diff`
RECURSIVE ScanHrInclusive(_, _, _, _, _)
ScanHrInclusive(target_time, samples, i, min_diff, best_hr) ==
    IF i > Len(samples) THEN best_hr
    ELSE LET diff == Abs(total_seconds(target_time, samples[i][1]))
             closer == diff <= min_diff
             min_diff2 == IF closer THEN diff ELSE min_diff
             best_hr2 == IF closer THEN Some(samples[i][2]) ELSE best_hr
         IN  IF diff < CloseEnoughMs THEN best_hr2
             ELSE ScanHrInclusive(target_time, samples, i + 1, min_diff2, best_hr2)

get_closest_hr_inclusive(target_time, samples) ==
    IF samples = <<>> THEN None
    ELSE ScanHrInclusive(target_time, samples, 1, MaxToleranceMs, None)

get_closest_hr(target_time, samples) ==
    IF samples = <<>> THEN None
    ELSE ScanHr(target_time, samples, 1, MaxToleranceMs, None)

-----------------------------------------------------------------------------
(* Inputs *)

RECURSIVE SeqsUpTo(_, _)
SeqsUpTo(S, n) ==
    IF n = 0 THEN {<<>>}
    ELSE LET shorter == SeqsUpTo(S, n - 1)
         IN  shorter \cup {Append(s, x) : s \in {t \in shorter : Len(t) = n - 1}, x \in S}

NoFile == [exists |-> FALSE, trkpts |-> <<>>]

FileOf(trkpts) == [exists |-> TRUE, trkpts |-> trkpts]

\* the idle values of the variables a specification does not use
IdleMain ==
    /\ argv = <<>>
    /\ stdout = <<>>
    /\ io_log = <<>>
    /\ target_km = None
    /\ track_points = <<>>
    /\ ratio = None
    /\ out_file = None

-----------------------------------------------------------------------------
(* get_closest_hr alone *)

\* the target instant 5000, from a text in UTC and from one at +02:00
QueryTimes == {Utc(5000), DateTime(5000, 7200000)}

SampleTimes ==
    {Utc(0), Utc(100), Utc(4500), Utc(4700), Utc(5100), Utc(5300), Utc(9900), Utc(10000)}

\* the i-th sample carries the bpm 60 + i, so that a bpm names its sample
SampleSeqs ==
    {[i \in 1..Len(ts) |-> <<ts[i], 60 + i>>] : ts \in SeqsUpTo(SampleTimes, MaxSamples)}

InitClosest ==
    /\ IdleMain
    /\ files = [gps |-> NoFile, hr |-> NoFile]
    /\ pc = "query"
    /\ hr_data \in SampleSeqs
    /\ q_time \in QueryTimes
    /\ q_result = None

Query ==
    /\ pc = "query"
    /\ q_result' = get_closest_hr(q_time, hr_data)
    /\ pc' = "answered"
    /\ UNCHANGED <<argv, files, stdout, io_log, target_km, hr_data,
                   track_points, ratio, out_file, q_time>>

NextClosest == Query

SpecClosest == InitClosest /\ [][NextClosest]_vars

-----------------------------------------------------------------------------
(* load_hr_data alone *)

HrTrkptTimes == {None, Some(Utc(0)), Some(DateTime(7000, 7200000))}

HrTrkptValues == {None, Some(0), Some(-1), Some(60)}

HrTrkpts == {[time |-> t, hr |-> h] : t \in HrTrkptTimes, h \in HrTrkptValues}

HrDocs == {NoFile} \cup {FileOf(d) : d \in SeqsUpTo(HrTrkpts, MaxHrTrkpts)}

InitLoad ==
    /\ IdleMain
    /\ files \in {[gps |-> NoFile, hr |-> f] : f \in HrDocs}
    /\ pc = "load"
    /\ hr_data = <<>>
    /\ q_time = Utc(0)
    /\ q_result = None

Load ==
    /\ pc = "load"
    /\ hr_data' = load_hr_data(files.hr)
    /\ pc' = "loaded"
    /\ UNCHANGED <<argv, files, stdout, io_log, target_km,
                   track_points, ratio, out_file, q_time, q_result>>

NextLoad == Load

SpecLoad == InitLoad /\ [][NextLoad]_vars

-----------------------------------------------------------------------------
(* Track Builder: the loop of main over the trkpt elements of GPS.gpx *)

\* one iteration per trkpt; prev is (prev_lat, prev_lon) or None, raw is
\* raw_accumulated_dist, pts is track_points.  found_points is only counted,
\* never read, and equals Len(pts)
RECURSIVE TrackLoop(_, _, _, _, _, _)
TrackLoop(trkpts, samples, i, prev, raw, pts) ==
    IF i > Len(trkpts) THEN pts
    ELSE LET trkpt == trkpts[i]
             ele == IF trkpt.ele # None THEN trkpt.ele[1] ELSE 0
         IN  IF trkpt.time = None
             THEN TrackLoop(trkpts, samples, i + 1, prev, raw, pts)
             ELSE LET t == trkpt.time[1]
                      step_dist == IF prev # None
                                   THEN haversine(prev[1][2], prev[1][1], trkpt.lon, trkpt.lat)
                                   ELSE 0
                      raw2 == raw + step_dist
                      point == [lat |-> trkpt.lat, lon |-> trkpt.lon, ele |-> ele,
                                time |-> t, raw_dist |-> raw2,
                                hr |-> get_closest_hr(t, samples)]
                  IN  TrackLoop(trkpts, samples, i + 1,
                                Some(<<trkpt.lat, trkpt.lon>>), raw2, Append(pts, point))

\* the loop with `raw_accumulated_dist = step_dist` in place of `+=`
RECURSIVE TrackLoopNoSum(_, _, _, _, _)
TrackLoopNoSum(trkpts, samples, i, prev, pts) ==
    IF i > Len(trkpts) THEN pts
    ELSE LET trkpt == trkpts[i]
             ele == IF trkpt.ele # None THEN trkpt.ele[1] ELSE 0
         IN  IF trkpt.time = None
             THEN TrackLoopNoSum(trkpts, samples, i + 1, prev, pts)
             ELSE LET t == trkpt.time[1]
                      step_dist == IF prev # None
                                   THEN haversine(prev[1][2], prev[1][1], trkpt.lon, trkpt.lat)
                                   ELSE 0
                      point == [lat |-> trkpt.lat, lon |-> trkpt.lon, ele |-> ele,
                                time |-> t, raw_dist |-> step_dist,
                                hr |-> get_closest_hr(t, samples)]
                  IN  TrackLoopNoSum(trkpts, samples, i + 1,
                                     Some(<<trkpt.lat, trkpt.lon>>), Append(pts, point))

parse_gps_track_no_sum(trkpts, samples) == TrackLoopNoSum(trkpts, samples, 1, None, <<>>)

\* the loop with prev_lat, prev_lon set before the `continue` of a trkpt
\* that has no time
RECURSIVE TrackLoopCursor(_, _, _, _, _, _)
TrackLoopCursor(trkpts, samples, i, prev, raw, pts) ==
    IF i > Len(trkpts) THEN pts
    ELSE LET trkpt == trkpts[i]
             ele == IF trkpt.ele # None THEN trkpt.ele[1] ELSE 0
             here == Some(<<trkpt.lat, trkpt.lon>>)
         IN  IF trkpt.time = None
             THEN TrackLoopCursor(trkpts, samples, i + 1, here, raw, pts)
             ELSE LET t == trkpt.time[1]
                      step_dist == IF prev # None
                                   THEN haversine(prev[1][2], prev[1][1], trkpt.lon, trkpt.lat)
                                   ELSE 0
                      raw2 == raw + step_dist
                      point == [lat |-> trkpt.lat, lon |-> trkpt.lon, ele |-> ele,
                                time |-> t, raw_dist |-> raw2,
                                hr |-> get_closest_hr(t, samples)]
                  IN  TrackLoopCursor(trkpts, samples, i + 1, here, raw2,
                                      Append(pts, point))

parse_gps_track_cursor(trkpts, samples) ==
    TrackLoopCursor(trkpts, samples, 1, None, 0, <<>>)

parse_gps_track(trkpts, samples) == TrackLoop(trkpts, samples, 1, None, 0, <<>>)

-----------------------------------------------------------------------------
(* Distance Rescaler *)

\* target_meters = target_km * 1000
target_meters_of(km) == FracMul(km, FracOfInt(1000))

\* the ratio inverted: total_gps_dist / target_meters
rescale_ratio_inverted(points, target_m) ==
    LET total_gps_dist == Last(points).raw_dist
    IN  IF total_gps_dist > 0 THEN Frac(total_gps_dist * target_m.den, target_m.num)
        ELSE FracOfInt(1)

\* ratio = target_meters / total_gps_dist if total_gps_dist > 0 else 1.0
rescale_ratio(points, target_m) ==
    LET total_gps_dist == Last(points).raw_dist
    IN  IF total_gps_dist > 0 THEN FracDivInt(target_m, total_gps_dist)
        ELSE FracOfInt(1)

\* p["dist_calculated"] = p["raw_dist"] * ratio, for every p
rescale(points, r) ==
    [i \in 1..Len(points) |->
        [lat |-> points[i].lat, lon |-> points[i].lon, ele |-> points[i].ele,
         time |-> points[i].time, raw_dist |-> points[i].raw_dist,
         hr |-> points[i].hr,
         dist_calculated |-> FracMul(FracOfInt(points[i].raw_dist), r)]]

-----------------------------------------------------------------------------
(* Interchange Writer *)

\* the document create_tcx writes: the Lap's fields and its Trackpoints.
\* TotalTimeSeconds is in milliseconds, a Trackpoint's DistanceMeters in
\* hundredths (two decimals), HeartRateBpm is None or Some(Value)
create_tcx(points, start_time, total_duration_sec, total_dist_meters) ==
    [Id |-> format_time_tcx(start_time),
     StartTime |-> format_time_tcx(start_time),
     TotalTimeSeconds |-> total_duration_sec,
     DistanceMeters |-> total_dist_meters,
     Trackpoints |->
        [i \in 1..Len(points) |->
            [Time |-> format_time_tcx(points[i].time),
             LatitudeDegrees |-> points[i].lat,
             LongitudeDegrees |-> points[i].lon,
             AltitudeMeters |-> points[i].ele,
             DistanceMeters |-> Format2f(points[i].dist_calculated),
             HeartRateBpm |-> IF Truthy(points[i].hr) THEN points[i].hr ELSE None]]]

-----------------------------------------------------------------------------
(* main *)

ExistsGps == "os.path.exists GPS.gpx"
ExistsHr == "os.path.exists HR.gpx"
ParseHr == "ET.parse HR.gpx"
ParseGps == "ET.parse GPS.gpx"
WriteOut == "open(w) output_fixed.tcx"

MsgArgMissing == "ERROR: Target distance is missing!"
\* a str of the model as a TLA+ string
RECURSIVE Join(_)
Join(chars) == IF chars = <<>> THEN "" ELSE Head(chars) \o Join(Tail(chars))

MsgArgInvalid(arg) == "ERROR: '" \o Join(arg) \o "' is not a valid number."
MsgFilesMissing == "ERROR: Ensure that 'GPS.gpx' and 'HR.gpx' are in the current directory."
MsgNoPoints == "ERROR: No track points found. Please check GPS.gpx validity."
MsgSuccess == "Success! Created file: output_fixed.tcx"

\* sys.argv[1] as a float: main's target_km, None for the ValueError
parse_target_km(args) == float(replace_comma(args[2]))

\* the argument check of main
CheckArgs ==
    /\ pc = "start"
    /\ IF Len(argv) < 2
       THEN /\ stdout' = Append(stdout, MsgArgMissing)
            /\ pc' = "returned"
            /\ UNCHANGED target_km
       ELSE IF parse_target_km(argv) = None
            THEN /\ stdout' = Append(stdout, MsgArgInvalid(argv[2]))
                 /\ pc' = "returned"
                 /\ UNCHANGED target_km
            ELSE /\ target_km' = parse_target_km(argv)
                 /\ pc' = "check_files"
                 /\ UNCHANGED stdout
    /\ UNCHANGED <<argv, files, io_log, hr_data, track_points, ratio,
                   out_file, q_time, q_result>>

\* the file check with GPS.gpx alone required
CheckFilesGpsOnly ==
    /\ pc = "check_files"
    /\ io_log' = Append(io_log, ExistsGps)
    /\ IF ~files.gps.exists
       THEN /\ stdout' = Append(stdout, MsgFilesMissing)
            /\ pc' = "returned"
       ELSE /\ pc' = "load_hr"
            /\ UNCHANGED stdout
    /\ UNCHANGED <<argv, files, target_km, hr_data, track_points, ratio,
                   out_file, q_time, q_result>>

\* if not os.path.exists(file_gps) or not os.path.exists(file_hr): return
CheckFiles ==
    /\ pc = "check_files"
    /\ io_log' = io_log \o <<ExistsGps>>
                        \o (IF files.gps.exists THEN <<ExistsHr>> ELSE <<>>)
    /\ IF ~files.gps.exists \/ ~files.hr.exists
       THEN /\ stdout' = Append(stdout, MsgFilesMissing)
            /\ pc' = "returned"
       ELSE /\ pc' = "load_hr"
            /\ UNCHANGED stdout
    /\ UNCHANGED <<argv, files, target_km, hr_data, track_points, ratio,
                   out_file, q_time, q_result>>

\* 1. Load Heart Rate Data
LoadHr ==
    /\ pc = "load_hr"
    /\ hr_data' = load_hr_data(files.hr)
    /\ io_log' = io_log \o <<ExistsHr>>
                        \o (IF files.hr.exists THEN <<ParseHr>> ELSE <<>>)
    /\ pc' = "parse_gps"
    /\ UNCHANGED <<argv, files, stdout, target_km, track_points, ratio,
                   out_file, q_time, q_result>>

\* 2. Parse GPS Data
BuildTrack ==
    /\ pc = "parse_gps"
    /\ io_log' = Append(io_log, ParseGps)
    /\ track_points' = parse_gps_track(files.gps.trkpts, hr_data)
    /\ IF track_points' = <<>>
       THEN /\ stdout' = Append(stdout, MsgNoPoints)
            /\ pc' = "returned"
       ELSE /\ pc' = "rescale"
            /\ UNCHANGED stdout
    /\ UNCHANGED <<argv, files, target_km, hr_data, ratio, out_file,
                   q_time, q_result>>

\* 3. Calculate Ratio and Rescale
Rescale ==
    /\ pc = "rescale"
    /\ ratio' = Some(rescale_ratio(track_points, target_meters_of(target_km[1])))
    /\ track_points' = rescale(track_points, ratio'[1])
    /\ pc' = "generate"
    /\ UNCHANGED <<argv, files, stdout, io_log, target_km, hr_data,
                   out_file, q_time, q_result>>

\* 4. Generate Output
Generate ==
    /\ pc = "generate"
    /\ LET start_t == track_points[1].time
           end_t == Last(track_points).time
           duration == total_seconds(end_t, start_t)
       IN  out_file' = Some(create_tcx(track_points, start_t, duration,
                                       target_meters_of(target_km[1])))
    /\ io_log' = Append(io_log, WriteOut)
    /\ stdout' = Append(stdout, MsgSuccess)
    /\ pc' = "returned"
    /\ UNCHANGED <<argv, files, target_km, hr_data, track_points, ratio,
                   q_time, q_result>>

\* the command lines: no argument, a non-numeric one, 0.222 km (the tabulated
\* distance between the first two waypoints, so that target = raw total
\* occurs) and 0,5 km (a decimal comma)
Script == <<"g", "p", "x">>

Argvs ==
    { <<Script>>,
      <<Script, <<"a", "b", "c">>>>,
      <<Script, <<"0", ".", "2", "2", "2">>>>,
      <<Script, <<"0", ",", "5">>>> }

\* three places, not on one line: (lat, lon) in thousandths of a degree,
\* with or without an ele element
Waypoints ==
    { [lat |-> 0, lon |-> 0, ele |-> Some(10)],
      [lat |-> 0, lon |-> 2, ele |-> None],
      [lat |-> 1, lon |-> 0, ele |-> Some(25)] }

\* the UTC offset of the time texts of a GPS.gpx: "Z" or "+02:00"
GpsUtcOffsets == {0, 7200000}

\* GPS.gpx: every trkpt is at a waypoint and has a time element or not; the
\* time texts of one document carry the same UTC offset
GpsTrkptSeqs ==
    {[i \in 1..Len(s) |->
        [lat |-> s[i][1].lat, lon |-> s[i][1].lon, ele |-> s[i][1].ele,
         time |-> IF s[i][2] THEN Some(DateTime((i - 1) * GpsIntervalMs, off))
                  ELSE None]]
     : s \in SeqsUpTo(Waypoints \X BOOLEAN, MaxTrkpts), off \in GpsUtcOffsets}

GpsFiles == {NoFile} \cup {FileOf(d) : d \in GpsTrkptSeqs}

\* HR.gpx in a run of main
HrFiles ==
    { NoFile,
      FileOf(<<>>),
      FileOf(<<[time |-> Some(Utc(0)), hr |-> Some(60)]>>),
      FileOf(<<[time |-> Some(Utc(0)), hr |-> Some(0)],
               [time |-> Some(Utc(7000)), hr |-> Some(75)]>>),
      FileOf(<<[time |-> Some(DateTime(7000, 7200000)), hr |-> Some(75)],
               [time |-> Some(Utc(0)), hr |-> Some(60)]>>),
      FileOf(<<[time |-> None, hr |-> Some(60)], [time |-> Some(Utc(7000)), hr |-> None],
               [time |-> Some(Utc(0)), hr |-> Some(-1)]>>) }

Init ==
    /\ argv \in Argvs
    /\ files \in [gps : GpsFiles, hr : HrFiles]
    /\ pc = "start"
    /\ stdout = <<>>
    /\ io_log = <<>>
    /\ target_km = None
    /\ hr_data = <<>>
    /\ track_points = <<>>
    /\ ratio = None
    /\ out_file = None
    /\ q_time = Utc(0)
    /\ q_result = None

Next ==
    \/ CheckArgs
    \/ CheckFiles
    \/ LoadHr
    \/ BuildTrack
    \/ Rescale
    \/ Generate

Spec == Init /\ [][Next]_vars

-----------------------------------------------------------------------------
(* Properties *)

ArgPresent == Len(argv) >= 2

ArgNumeric == ArgPresent /\ float(replace_comma(argv[2])) # None

\* the trkpt elements of GPS.gpx that have a time, in document order
TimedTrkpts == SelectSeq(files.gps.trkpts, HasTime)

Writes == {i \in 1..Len(io_log) : io_log[i] = WriteOut}

\* C1: the output file is written only as the last step of a run, and only
\* when the argument is present and numeric, both input files exist and the
\* retained track is not empty; with a missing or non-numeric argument no
\* file is checked or read; with a missing input file or an empty track the
\* run returns without a write
C1_OutputOnlyAsLastStep ==
    /\ (out_file # None \/ Writes # {}) =>
          /\ pc = "returned"
          /\ Writes = {Len(io_log)}
          /\ out_file # None
          /\ ArgNumeric
          /\ files.gps.exists /\ files.hr.exists
          /\ TimedTrkpts # <<>>
    /\ ~ArgNumeric => io_log = <<>> /\ pc \in {"start", "returned"}
    /\ (pc = "returned" /\ (~files.gps.exists \/ ~files.hr.exists \/ TimedTrkpts = <<>>)) =>
          out_file = None /\ Writes = {}

\* a run that passed every check and wrote the document
C1_Witness ==
    /\ pc = "returned"
    /\ out_file # None
    /\ io_log = <<ExistsGps, ExistsHr, ExistsHr, ParseHr, ParseGps, WriteOut>>

\* C2: with HR.gpx missing, GPS.gpx present with a timestamped point and a
\* valid argument, the finished run has written the document, and the
\* document has no HeartRateBpm element
C2_MissingHrFileStillWrites ==
    (/\ pc = "returned"
     /\ ArgNumeric
     /\ files.gps.exists
     /\ ~files.hr.exists
     /\ TimedTrkpts # <<>>) =>
        /\ out_file # None
        /\ \A i \in 1..Len(out_file[1].Trackpoints) :
              out_file[1].Trackpoints[i].HeartRateBpm = None

QDiff(i) == Abs(q_time.ms - hr_data[i][1].ms)

VeryClose == {i \in 1..Len(hr_data) : QDiff(i) < CloseEnoughMs}

WithinTolerance == {i \in 1..Len(hr_data) : QDiff(i) < MaxToleranceMs}

\* C3: when some sample is less than 0.5 s from the target, get_closest_hr
\* returns the bpm of the first such sample in stored order
C3_FirstVeryCloseSampleWins ==
    (pc = "answered" /\ VeryClose # {}) =>
        LET first == CHOOSE i \in VeryClose : \A j \in VeryClose : i <= j
        IN  q_result = Some(hr_data[first][2])

\* the samples 4.9 s, 0.3 s and 0.1 s away, in that order: the second is
\* returned, not the third
C3_Witness ==
    /\ pc = "answered"
    /\ Len(hr_data) = 3
    /\ QDiff(1) = 4900 /\ QDiff(2) = 300 /\ QDiff(3) = 100
    /\ q_result = Some(hr_data[2][2])
    /\ q_result # Some(hr_data[3][2])

\* C4: when no sample is less than 0.5 s from the target, get_closest_hr
\* returns the bpm of the sample with the smallest difference among those
\* strictly under 5 s, the first in stored order among equals, and None
\* when there is none; so the bpm returned is that of a sample under 5 s away
C4_NearestWithinTolerance ==
    (pc = "answered" /\ VeryClose = {}) =>
        /\ IF WithinTolerance = {}
           THEN q_result = None
           ELSE LET best == CHOOSE i \in WithinTolerance :
                               \A j \in WithinTolerance :
                                  \/ QDiff(i) < QDiff(j)
                                  \/ QDiff(i) = QDiff(j) /\ i <= j
                IN  q_result = Some(hr_data[best][2])
        /\ q_result # None =>
              \E i \in WithinTolerance : q_result = Some(hr_data[i][2])

\* a sample exactly 5 s away, then two samples 4.9 s away: the first of the
\* two is returned
C4_Witness ==
    /\ pc = "answered"
    /\ Len(hr_data) = 3
    /\ QDiff(1) = 5000 /\ QDiff(2) = 4900 /\ QDiff(3) = 4900
    /\ q_result = Some(hr_data[2][2])

\* C5: the rescale stage sets ratio to target / raw_total when raw_total > 0
\* and to 1 when raw_total = 0, gives every point corrected_distance =
\* raw_cumulative_distance * ratio (all 0 when raw_total = 0, the raw
\* distance itself when target = raw_total) and changes no other field
C5_RescaleUniformRatio ==
    [][(pc = "rescale" /\ pc' = "generate") =>
          LET raw_total == Last(track_points).raw_dist
              target == target_meters_of(target_km[1])
              n == Len(track_points)
          IN  /\ ratio' # None
              /\ raw_total > 0 =>
                    ratio'[1].num * raw_total * target.den = target.num * ratio'[1].den
              /\ raw_total = 0 =>
                    /\ FracEq(ratio'[1], FracOfInt(1))
                    /\ \A i \in 1..n : track_points'[i].dist_calculated.num = 0
              /\ FracEq(target, FracOfInt(raw_total)) =>
                    /\ FracEq(ratio'[1], FracOfInt(1))
                    /\ \A i \in 1..n :
                          FracEq(track_points'[i].dist_calculated,
                                 FracOfInt(track_points[i].raw_dist))
              /\ Len(track_points') = n
              /\ \A i \in 1..n :
                    /\ track_points'[i].dist_calculated.num * ratio'[1].den
                          = track_points[i].raw_dist * ratio'[1].num
                             * track_points'[i].dist_calculated.den
                    /\ DOMAIN track_points'[i] = DOMAIN track_points[i] \cup {"dist_calculated"}
                    /\ \A f \in DOMAIN track_points[i] :
                          track_points'[i][f] = track_points[i][f]
      ]_vars

\* a rescaled track of several points whose ratio is not 1
C5_Witness ==
    /\ pc = "generate"
    /\ Len(track_points) >= 2
    /\ Last(track_points).raw_dist > track_points[2].raw_dist
    /\ track_points[2].raw_dist > 0
    /\ ~FracEq(ratio[1], FracOfInt(1))

\* C6: the DistanceMeters of the Lap equals the corrected distance of the
\* last track point
C6_LapDistanceIsLastCorrected ==
    out_file # None =>
        FracEq(out_file[1].DistanceMeters, Last(track_points).dist_calculated)

\* C7: the raw distance of the first retained point is 0, and every later
\* point's raw distance is the previous one's plus a step that is not
\* negative, so the raw distance never decreases along the series
C7_RawDistanceMonotone ==
    track_points # <<>> =>
        /\ track_points[1].raw_dist = 0
        /\ \A i \in 2..Len(track_points) :
              LET step == haversine(track_points[i - 1].lon, track_points[i - 1].lat,
                                    track_points[i].lon, track_points[i].lat)
              IN  /\ step >= 0
                  /\ track_points[i].raw_dist = track_points[i - 1].raw_dist + step
                  /\ track_points[i].raw_dist >= track_points[i - 1].raw_dist

\* a track of three points: a step, then a return to the same place
C7_Witness ==
    /\ Len(track_points) = 3
    /\ track_points[2].raw_dist > 0
    /\ track_points[3].raw_dist > track_points[2].raw_dist
    /\ track_points[3].lat = track_points[1].lat
    /\ track_points[3].lon = track_points[1].lon

NonZeroReading(trkpt) == HasTime(trkpt) /\ trkpt.hr # None /\ trkpt.hr # Some(0)

HrLoaded == pc \in {"parse_gps", "rescale", "generate"} \/ track_points # <<>> \/ out_file # None

\* C8: a Trackpoint has a HeartRateBpm exactly when a heart rate was matched
\* for its point, with that bpm as Value; a reading of 0 in HR.gpx yields no
\* sample, and no Trackpoint has the Value 0
C8_HeartRateEmittedIffMatched ==
    /\ \A j \in 1..Len(hr_data) : hr_data[j][2] # 0
    /\ HrLoaded => Len(hr_data) = Len(SelectSeq(files.hr.trkpts, NonZeroReading))
    /\ out_file # None =>
          /\ Len(out_file[1].Trackpoints) = Len(track_points)
          /\ \A i \in 1..Len(track_points) :
                LET emitted == out_file[1].Trackpoints[i].HeartRateBpm
                IN  /\ (emitted # None) <=> (track_points[i].hr # None)
                    /\ emitted = track_points[i].hr
                    /\ emitted # Some(0)

\* a document with a Trackpoint that has a HeartRateBpm and one that has
\* none, from an HR.gpx that holds a reading of 0
C8_Witness ==
    /\ out_file # None
    /\ \E i \in 1..Len(files.hr.trkpts) :
          files.hr.trkpts[i].hr = Some(0) /\ HasTime(files.hr.trkpts[i])
    /\ \E i \in 1..Len(track_points) : out_file[1].Trackpoints[i].HeartRateBpm # None
    /\ \E i \in 1..Len(track_points) : out_file[1].Trackpoints[i].HeartRateBpm = None

\* C9: every sample load_hr_data returns has a bpm > 0
C9_LoadedBpmPositive ==
    \A j \in 1..Len(hr_data) : hr_data[j][2] > 0

TrackBuilt == pc \in {"rescale", "generate"} \/ out_file # None

\* C10: the series holds exactly the trkpt elements that have a time, in
\* document order, each step measured from the previous retained point, and
\* the document has one Trackpoint for each, in that order
C10_RetainsExactlyTimedPoints ==
    TrackBuilt =>
        /\ Len(track_points) = Len(TimedTrkpts)
        /\ \A i \in 1..Len(TimedTrkpts) :
              /\ track_points[i].lat = TimedTrkpts[i].lat
              /\ track_points[i].lon = TimedTrkpts[i].lon
              /\ track_points[i].time = TimedTrkpts[i].time[1]
              /\ track_points[i].raw_dist =
                    IF i = 1 THEN 0
                    ELSE track_points[i - 1].raw_dist
                         + haversine(TimedTrkpts[i - 1].lon, TimedTrkpts[i - 1].lat,
                                     TimedTrkpts[i].lon, TimedTrkpts[i].lat)
        /\ out_file # None =>
              /\ Len(out_file[1].Trackpoints) = Len(TimedTrkpts)
              /\ \A i \in 1..Len(TimedTrkpts) :
                    /\ out_file[1].Trackpoints[i].LatitudeDegrees = TimedTrkpts[i].lat
                    /\ out_file[1].Trackpoints[i].LongitudeDegrees = TimedTrkpts[i].lon
                    /\ out_file[1].Trackpoints[i].Time = format_time_tcx(TimedTrkpts[i].time[1])

\* a written document for a GPS.gpx whose middle trkpt has no time and lies
\* apart from both of its neighbours, which have one
C10_Witness ==
    /\ out_file # None
    /\ Len(files.gps.trkpts) = 3
    /\ HasTime(files.gps.trkpts[1])
    /\ ~HasTime(files.gps.trkpts[2])
    /\ HasTime(files.gps.trkpts[3])
    /\ haversine(files.gps.trkpts[1].lon, files.gps.trkpts[1].lat,
                 files.gps.trkpts[2].lon, files.gps.trkpts[2].lat) > 0
    /\ haversine(files.gps.trkpts[2].lon, files.gps.trkpts[2].lat,
                 files.gps.trkpts[3].lon, files.gps.trkpts[3].lat) > 0
    /\ Len(out_file[1].Trackpoints) = 2

=============================================================================
